---- MODULE Spec2Model ----
(***************************************************************************)
(* A model of libkmod's module object (libkmod/libkmod-module.c): the      *)
(* reference-counted module handle, the name canonicalizer, the dependency *)
(* resolver, alias lookup, module insertion and the initstate reader.      *)
(*                                                                         *)
(* C strings are sequences of one-character strings; NullStr stands for    *)
(* the NULL char pointer.  A kmod_list is a sequence of its data pointers; *)
(* the empty list is the NULL list pointer, as in libkmod.                 *)
(***************************************************************************)
EXTENDS Integers, Sequences, FiniteSets, TLC

\* ------------------------------------------------------------- bounds

\* Handles that can be allocated in one run (freed memory is not reused).
MaxHandles == 3
\* Cap on a handle's reference count (guards kmod_module_ref).
MaxRef == 2

\* Handles one lookup source can add to the list.
MaxFound == 1

\* Entries readdir returns for one directory.
MaxEntries == 2

\* Length of the paths handed to path_to_modname on its own.
MaxPathLen == 3

\* ---------------------------------------------------------- constants

ENOENT == 2
ENOMEM == 12
ENOSYS == 38
EINVAL == 22
EACCES == 13
EMFILE == 24
EIO == 5

NULL == 0
CTX == 1
NullStr == <<"(null)">>

Handles == 1..MaxHandles

VARIABLES
    mods,          \* the heap of struct kmod_module, by handle
    ctx_refcount,  \* references module handles hold on the kmod_ctx
    dangling,      \* handles whose dep pointer names freed list nodes
    double_unref,  \* handles passed to kmod_module_unref after their free
    held,          \* references the caller owns, per handle
    dep_ptr,       \* the list the caller got from kmod_module_get_dependency
    lookup_list,   \* the caller's output list for kmod_module_new_from_lookup
    holder_list,   \* the list the caller got from kmod_module_get_holders
    open_fds,      \* file descriptors that are open
    mappings,      \* memory mappings that exist
    fault,         \* "none", "assert" (abort) or "crash" (memory error)
    last           \* the last call: its arguments, external calls and result

vars == <<mods, ctx_refcount, dangling, double_unref, held, dep_ptr,
          lookup_list, holder_list, open_fds, mappings, fault, last>>

\* ------------------------------------------------------------ strings

Max(S) == CHOOSE x \in S : \A y \in S : y <= x
Min(S) == CHOOSE x \in S : \A y \in S : x <= y

Elems(list) == {list[i] : i \in 1..Len(list)}

SeqsUpTo(S, n) == UNION {[1..k -> S] : k \in 0..n}

\* strchr: index of the first c in s, 0 when there is none.
strchr(s, c) ==
    LET at == {i \in 1..Len(s) : s[i] = c}
    IN IF at = {} THEN 0 ELSE Min(at)

\* GNU basename (string.h): what follows the last '/', the argument untouched.
basename(path) ==
    LET at == {i \in 1..Len(path) : path[i] = "/"}
    IN IF at = {} THEN path ELSE SubSeq(path, Max(at) + 1, Len(path))

\* The scan of path_to_modname: '-' becomes '_' up to the first '.' or the end.
RECURSIVE modname_scan(_, _)
modname_scan(s, c) ==
    IF c > Len(s) \/ s[c] = "."
    THEN SubSeq(s, 1, c - 1)
    ELSE modname_scan([s EXCEPT ![c] = IF s[c] = "-" THEN "_" ELSE s[c]], c + 1)

path_to_modname(path) ==
    LET modname == basename(path)
    IN IF modname = <<>> THEN NullStr ELSE modname_scan(modname, 1)

IsDelim(c) == c = " " \/ c = "\t"

\* strtok_r(p, " \t", &saveptr) called until it returns NULL: the tokens of s.
RECURSIVE strtok_r(_)
strtok_r(s) ==
    LET start == {i \in 1..Len(s) : ~IsDelim(s[i])}
    IN IF start = {} THEN <<>>
       ELSE LET b == Min(start)
                stop == {i \in b..Len(s) : IsDelim(s[i])}
                e == IF stop = {} THEN Len(s) + 1 ELSE Min(stop)
            IN <<SubSeq(s, b, e - 1)>> \o strtok_r(SubSeq(s, e + 1, Len(s)))

\* --------------------------------------------------------------- heap

Unused == [st |-> "unused", refcount |-> 0, name |-> NullStr, path |-> NullStr,
           dep |-> <<>>, init_dep |-> FALSE]

Heap == [m |-> mods, ctx |-> ctx_refcount, dang |-> dangling, dbl |-> double_unref]

Fresh(m) == Min({h \in Handles : m[h].st = "unused"})
NumFree(m) == Cardinality({h \in Handles : m[h].st = "unused"})

\* kmod_list_append: the list with data at its end, or NULL when the node's
\* allocation fails.
kmod_list_append(list, data, ok) == IF ok THEN Append(list, data) ELSE <<>>

\* kmod_module_new_from_name on heap hp; calloc_ok is calloc's outcome.
kmod_module_new_from_name(hp, ctx, name, calloc_ok) ==
    IF ctx = NULL \/ name = NullStr
    THEN [hp |-> hp, err |-> -ENOENT, mod |-> NULL]
    ELSE IF ~calloc_ok
    THEN [hp |-> hp, err |-> -ENOMEM, mod |-> NULL]
    ELSE LET m == Fresh(hp.m)
         IN [hp |-> [hp EXCEPT !.m[m] = [Unused EXCEPT !.st = "live",
                                            !.name = name, !.refcount = 1],
                               !.ctx = @ + 1],
             err |-> 0, mod |-> m]

\* kmod_module_new_from_path calling stat before it looks at its arguments.
kmod_module_new_from_path_stat_first(hp, ctx, path, stat_err, calloc_ok) ==
    IF stat_err # 0
    THEN [hp |-> hp, err |-> -stat_err, mod |-> NULL]
    ELSE IF ctx = NULL \/ path = NullStr
    THEN [hp |-> hp, err |-> -ENOENT, mod |-> NULL]
    ELSE IF ~calloc_ok
    THEN [hp |-> hp, err |-> -ENOMEM, mod |-> NULL]
    ELSE LET m == Fresh(hp.m)
         IN [hp |-> [hp EXCEPT !.m[m] = [Unused EXCEPT !.st = "live",
                                            !.path = path, !.refcount = 1],
                               !.ctx = @ + 1],
             err |-> 0, mod |-> m]

\* kmod_module_new_from_path on heap hp; stat_err is stat's errno (0: success).
kmod_module_new_from_path(hp, ctx, path, stat_err, calloc_ok) ==
    IF ctx = NULL \/ path = NullStr
    THEN [hp |-> hp, err |-> -ENOENT, mod |-> NULL]
    ELSE IF stat_err # 0
    THEN [hp |-> hp, err |-> -stat_err, mod |-> NULL]
    ELSE IF ~calloc_ok
    THEN [hp |-> hp, err |-> -ENOMEM, mod |-> NULL]
    ELSE LET m == Fresh(hp.m)
         IN [hp |-> [hp EXCEPT !.m[m] = [Unused EXCEPT !.st = "live",
                                            !.path = path, !.refcount = 1],
                               !.ctx = @ + 1],
             err |-> 0, mod |-> m]

\* kmod_module_unref and kmod_module_unref_list on heap hp.  Run on a freed
\* handle (or through freed list nodes) they read the stale memory: the
\* use is recorded in dbl, and the caller of these operators adds the
\* other outcome of that undefined behaviour, a crash.  free() of the
\* strings leaves no name or path behind.
RECURSIVE kmod_module_unref(_, _), kmod_module_unref_list(_, _)

\* kmod_module_unref with its test off by one (--refcount >= 0): the handle
\* outlives its last reference.
kmod_module_unref_late(hp, mod) ==
    IF mod = NULL THEN hp
    ELSE LET h1 == [hp EXCEPT !.m[mod].refcount = @ - 1]
         IN IF h1.m[mod].refcount >= 0 THEN h1
            ELSE LET h2 == kmod_module_unref_list(h1, h1.m[mod].dep)
                 IN [h2 EXCEPT !.ctx = @ - 1, !.m[mod].st = "freed",
                               !.m[mod].path = NullStr, !.m[mod].name = NullStr]

kmod_module_unref(hp, mod) ==
    IF mod = NULL THEN hp
    ELSE LET h0 == IF hp.m[mod].st = "freed"
                   THEN [hp EXCEPT !.dbl = @ \cup {mod}] ELSE hp
             h1 == [h0 EXCEPT !.m[mod].refcount = @ - 1]
         IN IF h1.m[mod].refcount > 0 THEN h1
            ELSE LET h2 == kmod_module_unref_list(h1, h1.m[mod].dep)
                 IN [h2 EXCEPT !.ctx = @ - 1, !.m[mod].st = "freed",
                               !.m[mod].path = NullStr, !.m[mod].name = NullStr]

kmod_module_unref_list(hp, list) ==
    IF list = <<>> THEN hp
    ELSE kmod_module_unref_list(kmod_module_unref(hp, Head(list)), Tail(list))

\* kmod_module_ref on heap hp.
kmod_module_ref(hp, mod) ==
    IF mod = NULL THEN hp ELSE [hp EXCEPT !.m[mod].refcount = @ + 1]

\* Whether running from heap a to heap b touched freed memory: a freed
\* handle was passed to kmod_module_unref, or a handle was destroyed whose
\* dep pointer names freed list nodes.
TouchedFreed(a, b) ==
    \/ b.dbl # a.dbl
    \/ \E p \in a.dang : /\ a.m[p].st = "live"
                         /\ b.m[p].st = "freed"
                         /\ a.m[p].dep # <<>>

Call(op, mod, arg, trace, ret) ==
    [op |-> op, mod |-> mod, arg |-> arg, trace |-> trace, ret |-> ret]

\* The heap part of the next state.
SetHeap(hp) ==
    /\ mods' = hp.m
    /\ ctx_refcount' = hp.ctx
    /\ dangling' = hp.dang
    /\ double_unref' = hp.dbl

Running == fault = "none"

\* ------------------------------------------------- inputs of the calls

NameArgs == {NullStr, <<"a">>}
PathArgs == {NullStr, <<"/", "a", "-", "b", ".", "k">>}
CtxArgs == {NULL, CTX}
StatErrnos == {0, ENOENT, EACCES}

\* The dependency lines handed to kmod_module_parse_dep:
\*   "a"  "a:"  "a: b-"  "a:\tb.k a"  "a:/a b- /"  "a: .k"  "a:b:"
DepLines ==
    { <<"a">>,
      <<"a", ":">>,
      <<"a", ":", " ", "b", "-">>,
      <<"a", ":", "\t", "b", ".", "k", " ", "a">>,
      <<"a", ":", "/", "a", " ", "b", "-", " ", "/">>,
      <<"a", ":", " ", ".", "k">>,
      <<"a", ":", "b", ":">> }

\* What can happen to one token of a dependency line: both allocations
\* succeed, calloc of the handle fails, or the list node's allocation fails.
TokenOutcomes == {"ok", "calloc_fails", "append_fails"}

Held == {h \in Handles : held[h] > 0}

\* ------------------------------------------------ dependency resolver

\* The text kmod_module_parse_dep tokenizes: what follows the first ':'.
AfterColon(line) == SubSeq(line, strchr(line, ":") + 1, Len(line))

\* The for loop of kmod_module_parse_dep over the tokens toks[i..], with
\* oc[i] the outcome of token i's allocations.
RECURSIVE parse_dep_loop(_, _, _, _, _, _)
parse_dep_loop(hp, toks, i, list, n, oc) ==
    IF i > Len(toks)
    THEN [hp |-> hp, list |-> list, n |-> n, err |-> 0]
    ELSE LET modname == path_to_modname(toks[i])
             r == kmod_module_new_from_name(hp, CTX, modname,
                                            oc[i] # "calloc_fails")
         IN IF r.err < 0
            THEN [hp |-> kmod_module_unref_list(r.hp, list), list |-> <<>>,
                  n |-> n, err |-> r.err]
            ELSE parse_dep_loop(r.hp, toks, i + 1,
                                kmod_list_append(list, r.mod,
                                                 oc[i] # "append_fails"),
                                n + 1, oc)

\* kmod_module_parse_dep asserting mod->dep == NULL alone: a handle whose
\* resolution committed no dependency is resolved again.
kmod_module_parse_dep_weak_assert(hp, mod, line, oc) ==
    IF hp.m[mod].dep # <<>>
    THEN [hp |-> hp, ret |-> 0, abort |-> TRUE]
    ELSE LET h1 == [hp EXCEPT !.m[mod].init_dep = TRUE]
         IN IF strchr(line, ":") = 0
            THEN [hp |-> h1, ret |-> 0, abort |-> FALSE]
            ELSE LET r == parse_dep_loop(h1, strtok_r(AfterColon(line)), 1,
                                         <<>>, 0, oc)
                 IN IF r.err < 0
                    THEN [hp |-> [r.hp EXCEPT !.m[mod].init_dep = FALSE],
                          ret |-> r.err, abort |-> FALSE]
                    ELSE [hp |-> [r.hp EXCEPT !.m[mod].dep = r.list],
                          ret |-> r.n, abort |-> FALSE]

\* kmod_module_parse_dep on heap hp: abort is the failed assertion.
kmod_module_parse_dep(hp, mod, line, oc) ==
    IF hp.m[mod].init_dep \/ hp.m[mod].dep # <<>>
    THEN [hp |-> hp, ret |-> 0, abort |-> TRUE]
    ELSE LET h1 == [hp EXCEPT !.m[mod].init_dep = TRUE]
         IN IF strchr(line, ":") = 0
            THEN [hp |-> h1, ret |-> 0, abort |-> FALSE]
            ELSE LET r == parse_dep_loop(h1, strtok_r(AfterColon(line)), 1,
                                         <<>>, 0, oc)
                 IN IF r.err < 0
                    THEN [hp |-> [r.hp EXCEPT !.m[mod].init_dep = FALSE],
                          ret |-> r.err, abort |-> FALSE]
                    ELSE [hp |-> [r.hp EXCEPT !.m[mod].dep = r.list],
                          ret |-> r.n, abort |-> FALSE]

\* ------------------------------------------------------------ actions

Init ==
    /\ mods = [h \in Handles |-> Unused]
    /\ ctx_refcount = 0
    /\ dangling = {}
    /\ double_unref = {}
    /\ held = [h \in Handles |-> 0]
    /\ dep_ptr = NULL
    /\ lookup_list = <<>>
    /\ holder_list = <<>>
    /\ open_fds = {}
    /\ mappings = {}
    /\ fault = "none"
    /\ last = Call("init", NULL, <<>>, <<>>, 0)

\* The next state after a call that ran from the current heap to heap hp:
\* when it touched freed memory the build either runs on over the stale
\* bytes (hp) or crashes.
Outcome(hp) ==
    \/ /\ SetHeap(hp)
       /\ fault' = fault
    \/ /\ TouchedFreed(Heap, hp)
       /\ SetHeap([Heap EXCEPT !.dbl = hp.dbl])
       /\ fault' = "crash"

NewFromName ==
    /\ Running
    /\ NumFree(mods) > 0
    /\ \E ctx \in CtxArgs, name \in NameArgs, calloc_ok \in BOOLEAN :
         LET r == kmod_module_new_from_name(Heap, ctx, name, calloc_ok)
         IN /\ SetHeap(r.hp)
            /\ held' = IF r.err = 0 THEN [held EXCEPT ![r.mod] = 1] ELSE held
            /\ last' = Call("new_from_name", r.mod, [ctx |-> ctx, name |-> name],
                            <<>>, r.err)
    /\ UNCHANGED <<dep_ptr, lookup_list, open_fds, mappings, fault,
                   holder_list>>

NewFromPath ==
    /\ Running
    /\ NumFree(mods) > 0
    /\ \E ctx \in CtxArgs, path \in PathArgs, e \in StatErrnos,
          calloc_ok \in BOOLEAN :
         LET r == kmod_module_new_from_path(Heap, ctx, path, e, calloc_ok)
         IN /\ SetHeap(r.hp)
            /\ held' = IF r.err = 0 THEN [held EXCEPT ![r.mod] = 1] ELSE held
            /\ last' = Call("new_from_path", r.mod,
                            [ctx |-> ctx, path |-> path, stat_err |-> e],
                            <<>>, r.err)
    /\ UNCHANGED <<dep_ptr, lookup_list, open_fds, mappings, fault,
                   holder_list>>

Ref ==
    /\ Running
    /\ \E mod \in {NULL} \cup {h \in Held : mods[h].refcount < MaxRef} :
         /\ SetHeap(kmod_module_ref(Heap, mod))
         /\ held' = IF mod = NULL THEN held ELSE [held EXCEPT ![mod] = @ + 1]
         /\ last' = Call("ref", mod, <<>>, <<>>, mod)
    /\ UNCHANGED <<dep_ptr, lookup_list, open_fds, mappings, fault,
                   holder_list>>

Unref ==
    /\ Running
    /\ \E mod \in {NULL} \cup Held :
         /\ Outcome(kmod_module_unref(Heap, mod))
         /\ held' = IF mod = NULL THEN held ELSE [held EXCEPT ![mod] = @ - 1]
         /\ dep_ptr' = IF mod # NULL /\ mod = dep_ptr /\ held[mod] = 1
                       THEN NULL ELSE dep_ptr
         /\ last' = Call("unref", mod, <<>>, <<>>, 0)
    /\ UNCHANGED <<lookup_list, open_fds, mappings, holder_list>>

ParseDep ==
    /\ Running
    /\ \E mod \in Held, line \in DepLines :
         LET toks == IF strchr(line, ":") = 0 THEN <<>>
                     ELSE strtok_r(AfterColon(line))
             need == {i \in 1..Len(toks) : path_to_modname(toks[i]) # NullStr}
         IN /\ Cardinality(need) <= NumFree(mods)
            /\ \E oc \in [1..Len(toks) -> TokenOutcomes] :
                 LET r == kmod_module_parse_dep(Heap, mod, line, oc)
                 IN /\ SetHeap(r.hp)
                    /\ fault' = IF r.abort THEN "assert" ELSE fault
                    /\ last' = Call("parse_dep", mod,
                                    [line |-> line, oc |-> oc], <<>>, r.ret)
    /\ UNCHANGED <<held, dep_ptr, lookup_list, open_fds, mappings,
                   holder_list>>

\* kmod_module_get_dependency: the caller keeps the list it returns.
GetDependency ==
    /\ Running
    /\ \E mod \in Held :
         /\ dep_ptr' = IF mods[mod].dep = <<>> THEN NULL ELSE mod
         /\ last' = Call("get_dependency", mod, <<>>, <<>>, 0)
    /\ UNCHANGED <<mods, ctx_refcount, dangling, double_unref, held,
                   lookup_list, open_fds, mappings, fault, holder_list>>

\* kmod_module_unref_list on the list kmod_module_get_dependency returned.
UnrefDependencyList ==
    /\ Running
    /\ dep_ptr # NULL
    /\ dep_ptr \notin dangling
    /\ Outcome(kmod_module_unref_list([Heap EXCEPT !.dang = @ \cup {dep_ptr}],
                                      mods[dep_ptr].dep))
    /\ dep_ptr' = NULL
    /\ last' = Call("unref_list", dep_ptr, <<>>, <<>>, 0)
    /\ UNCHANGED <<held, lookup_list, open_fds, mappings, holder_list>>

\* kmod_module_get_module(entry), entry being a node of the list
\* kmod_module_get_dependency returned: the caller gets a reference to the
\* node's handle.
kmod_module_get_module(hp, entry) ==
    IF entry = NULL THEN [hp |-> hp, mod |-> NULL]
    ELSE [hp |-> kmod_module_ref(hp, entry), mod |-> entry]

\* The caller walks the list of a live handle, and takes a reference
\* while the handle's count is below MaxRef.
GetModule ==
    /\ Running
    /\ dep_ptr # NULL
    /\ dep_ptr \notin dangling
    /\ mods[dep_ptr].st = "live"
    /\ \E entry \in {NULL} \cup {d \in Elems(mods[dep_ptr].dep) :
                                   /\ mods[d].st = "live"
                                   /\ mods[d].refcount < MaxRef} :
         LET r == kmod_module_get_module(Heap, entry)
         IN /\ SetHeap(r.hp)
            /\ held' = IF r.mod = NULL THEN held
                       ELSE [held EXCEPT ![r.mod] = @ + 1]
            /\ last' = Call("get_module", entry, <<>>, <<>>, r.mod)
    /\ UNCHANGED <<dep_ptr, lookup_list, holder_list, open_fds, mappings, fault>>

\* ------------------------------------------------------ alias lookup

\* The four lookup sources, in the order kmod_module_new_from_lookup calls
\* them.
Sources == <<"config", "moddep_file", "symbols_file", "aliases_file">>

\* What one source does: it appends n handles to the list and returns
\* -err when err # 0 and the number of matches otherwise.
SourceOutcomes == [err : {0, ENOMEM}, n : 0..MaxFound]

\* kmod_lookup_alias_from_<source>(ctx, alias, list) with outcome o: the
\* handles are made by kmod_module_new_from_name and appended to *list.
RECURSIVE kmod_lookup_alias(_, _, _, _)
kmod_lookup_alias(hp, alias, list, o) ==
    IF o.n = 0
    THEN [hp |-> hp, list |-> list, err |-> IF o.err # 0 THEN -o.err ELSE Len(list)]
    ELSE LET r == kmod_module_new_from_name(hp, CTX, alias, TRUE)
         IN kmod_lookup_alias(r.hp, alias, Append(list, r.mod),
                              [o EXCEPT !.n = @ - 1])

\* CHECK_ERR_AND_FINISH that never takes the finish branch: the remaining
\* sources are called although the list is already filled.
CHECK_ERR_AND_FINISH_no_finish(err, list) ==
    IF err < 0 THEN "fail" ELSE "next"

\* CHECK_ERR_AND_FINISH: where the macro goes after a source returned.
CHECK_ERR_AND_FINISH(err, list) ==
    IF err < 0 THEN "fail"
    ELSE IF list # <<>> THEN "finish"
    ELSE "next"

\* The fail label without its cleanup: the partial list goes back to the
\* caller.
lookup_fail_no_cleanup(hp, list, err, trace) ==
    [hp |-> hp, list |-> list, err |-> err, trace |-> trace]

\* The fail label of kmod_module_new_from_lookup: release the partial list,
\* clear the caller's list, return the error.
lookup_fail(hp, list, err, trace) ==
    [hp |-> kmod_module_unref_list(hp, list), list |-> <<>>, err |-> err,
     trace |-> trace]

\* The body of kmod_module_new_from_lookup from its i-th source on; oc[i]
\* is what source i does when it is called, trace the sources called.  A
\* run that calls a source oc does not describe is marked "undescribed".
RECURSIVE lookup_from(_, _, _, _, _, _)
lookup_from(hp, alias, list, i, oc, trace) ==
    LET r == kmod_lookup_alias(hp, alias, list, oc[i])
        tr == Append(trace, Sources[i])
        go == CHECK_ERR_AND_FINISH(r.err, r.list)
    IN IF i > Len(oc)
       THEN [hp |-> hp, list |-> list, err |-> 0,
             trace |-> Append(trace, "undescribed")]
       ELSE IF go = "fail"
       THEN lookup_fail(r.hp, r.list, r.err, tr)
       ELSE IF go = "finish" \/ i = Len(Sources)
       THEN [hp |-> r.hp, list |-> r.list, err |-> r.err, trace |-> tr]
       ELSE lookup_from(r.hp, alias, r.list, i + 1, oc, tr)

\* kmod_module_new_from_lookup testing list == NULL alone: a list that
\* already holds handles is handed to the sources.
kmod_module_new_from_lookup_any_list(hp, ctx, alias, listp, list, oc) ==
    IF ctx = NULL \/ alias = NullStr
    THEN [hp |-> hp, list |-> list, err |-> -ENOENT, trace |-> <<>>]
    ELSE IF listp = NULL
    THEN [hp |-> hp, list |-> list, err |-> -ENOSYS, trace |-> <<>>]
    ELSE lookup_from(hp, alias, list, 1, oc, <<>>)

\* kmod_module_new_from_lookup(ctx, alias, list): listp is NULL for a null
\* list argument, and list is *list on entry.
kmod_module_new_from_lookup(hp, ctx, alias, listp, list, oc) ==
    IF ctx = NULL \/ alias = NullStr
    THEN [hp |-> hp, list |-> list, err |-> -ENOENT, trace |-> <<>>]
    ELSE IF listp = NULL \/ list # <<>>
    THEN [hp |-> hp, list |-> list, err |-> -ENOSYS, trace |-> <<>>]
    ELSE lookup_from(hp, alias, list, 1, oc, <<>>)

NewFromLookup ==
    /\ Running
    /\ NumFree(mods) >= MaxFound
    /\ \E ctx \in CtxArgs, alias \in NameArgs, listp \in {NULL, 1},
          oc \in SeqsUpTo(SourceOutcomes, Len(Sources)) :
         LET r == kmod_module_new_from_lookup(Heap, ctx, alias, listp,
                                              lookup_list, oc)
         IN /\ Len(r.trace) = Len(oc)
            /\ "undescribed" \notin Elems(r.trace)
            /\ SetHeap(r.hp)
            /\ lookup_list' = r.list
            /\ last' = Call("new_from_lookup", NULL,
                            [ctx |-> ctx, alias |-> alias, listp |-> listp,
                             list |-> lookup_list, oc |-> oc],
                            r.trace, r.err)
    /\ UNCHANGED <<held, dep_ptr, open_fds, mappings, fault, holder_list>>

\* kmod_module_unref_list on the list kmod_module_new_from_lookup filled.
UnrefLookupList ==
    /\ Running
    /\ lookup_list # <<>>
    /\ Outcome(kmod_module_unref_list(Heap, lookup_list))
    /\ lookup_list' = <<>>
    /\ last' = Call("unref_list", NULL, <<>>, <<>>, 0)
    /\ UNCHANGED <<held, dep_ptr, open_fds, mappings, holder_list>>

\* ---------------------------------------------------- module insertion

\* open(2): the lowest-numbered descriptor that is not open.
LowestFd(fds) == Min((0..Cardinality(fds)) \ fds)

\* What the system does during one kmod_module_insert_module: errno of
\* open, of mmap and of close (0: success), the file's size, and what
\* init_module returns.  Fields the call never reaches are 0.
InsertOutcomes ==
    { o \in [open_err : {0, ENOENT, EACCES, EMFILE}, size : {0, 1},
             mmap_err : {0, ENOMEM, EACCES}, close_err : {0, EIO},
             init_ret : {0, -ENOENT}] :
        /\ o.open_err # 0 => o.size = 0 /\ o.mmap_err = 0 /\ o.close_err = 0
                             /\ o.init_ret = 0
        /\ o.size = 0 => o.mmap_err = 0
        /\ o.mmap_err # 0 => o.init_ret = 0
        /\ o.size = 0 => o.init_ret = 0
        /\ (o.size # 0 /\ o.mmap_err = 0) => o.close_err = 0 }

\* errno of mmap(0, st.st_size, ...): a length of 0 is EINVAL.
MmapErrno(o) == IF o.size = 0 THEN EINVAL ELSE o.mmap_err

\* The MAP_FAILED branch returning without close(fd).
insert_mmap_failed_no_close(fds, maps, fd, o) ==
    [fds |-> fds, maps |-> maps, ret |-> -MmapErrno(o),
     trace |-> <<"open", "fstat", "mmap">>]

\* The branch taken when mmap returns MAP_FAILED: close(fd), return -errno,
\* errno being the one close left when it failed too.
insert_mmap_failed(fds, maps, fd, o) ==
    [fds |-> fds \ {fd}, maps |-> maps,
     ret |-> -(IF o.close_err # 0 THEN o.close_err ELSE MmapErrno(o)),
     trace |-> <<"open", "fstat", "mmap", "close">>]

\* The path after a successful mmap: init_module, munmap, close.
insert_mapped(fds, maps, fd, o) ==
    [fds |-> fds \ {fd}, maps |-> (maps \cup {fd}) \ {fd},
     ret |-> o.init_ret,
     trace |-> <<"open", "fstat", "mmap", "init_module", "munmap", "close">>]

\* kmod_module_insert_module(mod, flags) with the descriptors fds open and
\* the mappings maps; path is mod->path.
kmod_module_insert_module(fds, maps, mod, path, o) ==
    IF mod = NULL
    THEN [fds |-> fds, maps |-> maps, ret |-> -ENOENT, trace |-> <<>>]
    ELSE IF path = NullStr
    THEN [fds |-> fds, maps |-> maps, ret |-> -ENOSYS, trace |-> <<>>]
    ELSE IF o.open_err # 0
    THEN [fds |-> fds, maps |-> maps, ret |-> -o.open_err, trace |-> <<"open">>]
    ELSE LET fd == LowestFd(fds)
         IN IF MmapErrno(o) # 0
            THEN insert_mmap_failed(fds \cup {fd}, maps, fd, o)
            ELSE insert_mapped(fds \cup {fd}, maps, fd, o)

\* The call on a NULL handle or a handle without path reaches no system
\* call: its outcome record is pinned to one value, not enumerated.
InsertModule ==
    /\ Running
    /\ \E mod \in {NULL} \cup Held, flags \in {0, 1}, o \in InsertOutcomes :
         LET path == IF mod = NULL THEN NullStr ELSE mods[mod].path
             r == kmod_module_insert_module(open_fds, mappings, mod, path, o)
         IN /\ (mod = NULL \/ path = NullStr) => o.open_err = ENOENT
            /\ open_fds' = r.fds
            /\ mappings' = r.maps
            /\ last' = Call("insert_module", mod, [flags |-> flags, o |-> o],
                            r.trace, r.ret)
    /\ UNCHANGED <<mods, ctx_refcount, dangling, double_unref, held, dep_ptr,
                   lookup_list, fault, holder_list>>

\* ------------------------------------------------------ module removal

\* The bits of the flags argument of kmod_module_remove_module, by name;
\* "other" stands for every bit that is neither force nor nowait.
RemoveFlags == SUBSET {"force", "nowait", "other"}

\* What delete_module returns.
DeleteReturns == {0, -ENOENT}

\* get_modname(mod): mod->name, set from mod->path when it is NULL.
get_modname(hp, mod) ==
    IF hp.m[mod].name = NullStr
    THEN [hp EXCEPT !.m[mod].name = path_to_modname(hp.m[mod].path)]
    ELSE hp

\* kmod_module_remove_module(mod, flags); delete_ret is what delete_module
\* returns.  name and flags are the arguments delete_module is called with.
kmod_module_remove_module(hp, mod, flags, delete_ret) ==
    IF mod = NULL
    THEN [hp |-> hp, ret |-> -ENOENT, trace |-> <<>>, name |-> NullStr,
          flags |-> {}]
    ELSE LET h1 == get_modname(hp, mod)
         IN [hp |-> h1, ret |-> delete_ret, trace |-> <<"delete_module">>,
             name |-> h1.m[mod].name,
             flags |-> flags \cap {"force", "nowait"}]

\* The call on a NULL handle does not reach delete_module: its return
\* value is pinned to one value, not enumerated.
RemoveModule ==
    /\ Running
    /\ \E mod \in {NULL} \cup Held, flags \in RemoveFlags,
          delete_ret \in DeleteReturns :
         LET r == kmod_module_remove_module(Heap, mod, flags, delete_ret)
         IN /\ mod = NULL => delete_ret = 0
            /\ SetHeap(r.hp)
            /\ last' = Call("remove_module", mod,
                            [flags |-> flags, name |-> r.name,
                             masked |-> r.flags],
                            r.trace, r.ret)
    /\ UNCHANGED <<held, dep_ptr, lookup_list, open_fds, mappings, fault,
                   holder_list>>

\* kmod_module_get_name(mod): mod->name as it is.
kmod_module_get_name(hp, mod) == hp.m[mod].name

GetName ==
    /\ Running
    /\ \E mod \in Held :
         last' = Call("get_name", mod, <<>>, <<>>,
                      kmod_module_get_name(Heap, mod))
    /\ UNCHANGED <<mods, ctx_refcount, dangling, double_unref, held, dep_ptr,
                   lookup_list, open_fds, mappings, fault, holder_list>>

\* ---------------------------------------------------------- initstate

KMOD_MODULE_BUILTIN == 0
KMOD_MODULE_LIVE == 1
KMOD_MODULE_COMING == 2
KMOD_MODULE_GOING == 3

SysModule == <<"/", "s", "y", "s", "/", "m", "o", "d", "u", "l", "e", "/">>
InitstateEntry == <<"/", "i", "n", "i", "t", "s", "t", "a", "t", "e">>
BufSize == 32

\* What "%s" prints for a char pointer: glibc prints "(null)" for NULL.
Printed(str) ==
    IF str = NullStr THEN <<"(", "n", "u", "l", "l", ")">> ELSE str

Live == <<"l", "i", "v", "e">>
Coming == <<"c", "o", "m", "i", "n", "g">>
Going == <<"g", "o", "i", "n", "g">>
Newline == <<"\n">>

\* Contents of an initstate file.
InitstateContents ==
    { Live \o Newline, Coming \o Newline, Going \o Newline,
      Live, Coming, Going,
      <<>>, Newline, <<"d", "e", "a", "d", "\n">>,
      Live \o Newline \o Newline, <<" ">> \o Live \o Newline,
      <<"l", "i", "v">> }

\* What the system does during one kmod_module_get_initstate: errno of the
\* open (0: success), what /sys/module/<name> is, errno of the read, and
\* the file's content.  Fields the call never reaches are empty.
InitstateOutcomes ==
    { o \in [open_err : {0, ENOENT, EACCES, EMFILE},
             dir : {"dir", "file", "none"},
             read_err : {0, EIO}, content : InitstateContents] :
        /\ o.open_err # 0 => o.read_err = 0 /\ o.content = <<>>
        /\ o.open_err = 0 => o.dir = "dir"
        /\ o.read_err # 0 => o.content = <<>> }

\* read_str_safe(fd, buf, buflen): the file's first buflen - 1 bytes in buf
\* and their number, or -errno.
read_str_safe(content, read_err, buflen) ==
    IF read_err # 0 THEN [err |-> -read_err, buf |-> <<>>]
    ELSE LET n == IF Len(content) < buflen THEN Len(content) ELSE buflen - 1
         IN [err |-> n, buf |-> SubSeq(content, 1, n)]

\* kmod_module_get_initstate with the coming and going results swapped.
kmod_module_get_initstate_swapped(name, o) ==
    LET r == read_str_safe(o.content, o.read_err, BufSize)
    IN IF o.open_err # 0
       THEN IF o.dir = "dir" THEN KMOD_MODULE_BUILTIN ELSE -o.open_err
       ELSE IF r.err < 0 THEN r.err
       ELSE IF r.buf = Live \o Newline THEN KMOD_MODULE_LIVE
       ELSE IF r.buf = Coming \o Newline THEN KMOD_MODULE_GOING
       ELSE IF r.buf = Going \o Newline THEN KMOD_MODULE_COMING
       ELSE -EINVAL

\* kmod_module_get_initstate(mod), name being mod->name.
kmod_module_get_initstate(name, o) ==
    LET pathlen == Len(SysModule \o Printed(name) \o InitstateEntry)
    IN IF o.open_err # 0
       THEN IF pathlen > Len(InitstateEntry) /\ o.dir = "dir"
            THEN KMOD_MODULE_BUILTIN
            ELSE -o.open_err
       ELSE LET r == read_str_safe(o.content, o.read_err, BufSize)
            IN IF r.err < 0 THEN r.err
               ELSE IF r.buf = Live \o Newline THEN KMOD_MODULE_LIVE
               ELSE IF r.buf = Coming \o Newline THEN KMOD_MODULE_COMING
               ELSE IF r.buf = Going \o Newline THEN KMOD_MODULE_GOING
               ELSE -EINVAL

GetInitstate ==
    /\ Running
    /\ \E mod \in Held, o \in InitstateOutcomes :
         last' = Call("get_initstate", mod, o,
                      <<SysModule \o Printed(mods[mod].name) \o InitstateEntry>>,
                      kmod_module_get_initstate(mods[mod].name, o))
    /\ UNCHANGED <<mods, ctx_refcount, dangling, double_unref, held, dep_ptr,
                   lookup_list, open_fds, mappings, fault, holder_list>>

\* ------------------------------------------------------------- refcnt

RefcntEntry == <<"/", "r", "e", "f", "c", "n", "t">>

\* What the system does during one kmod_module_get_refcnt: errno of the
\* open (0: success), the error of read_str_long (0: success) and the
\* number it read.  Fields the call never reaches are 0.
RefcntOutcomes ==
    { o \in [open_err : {0, ENOENT}, read_err : {0, EINVAL}, refcnt : {0, 1}] :
        /\ o.open_err # 0 => o.read_err = 0 /\ o.refcnt = 0
        /\ o.read_err # 0 => o.refcnt = 0 }

\* read_str_long(fd, &value, base): 0 and the number, or a negative error.
read_str_long(read_err, value) ==
    IF read_err # 0 THEN [err |-> -read_err, value |-> 0]
    ELSE [err |-> 0, value |-> value]

\* kmod_module_get_refcnt(mod), name being mod->name.
kmod_module_get_refcnt(name, o) ==
    LET r == read_str_long(o.read_err, o.refcnt)
    IN IF o.open_err # 0 THEN -o.open_err
       ELSE IF r.err < 0 THEN r.err
       ELSE r.value

GetRefcnt ==
    /\ Running
    /\ \E mod \in Held, o \in RefcntOutcomes :
         last' = Call("get_refcnt", mod, o,
                      <<SysModule \o Printed(mods[mod].name) \o RefcntEntry>>,
                      kmod_module_get_refcnt(mods[mod].name, o))
    /\ UNCHANGED <<mods, ctx_refcount, dangling, double_unref, held, dep_ptr,
                   lookup_list, open_fds, mappings, fault, holder_list>>

\* ------------------------------------------------ holders and sections

Dot == <<".">>
DotDot == <<".", ".">>

\* The names readdir returns, and the directories: their entries in the
\* order readdir returns them.
DirNames == {Dot, DotDot, <<"g">>, <<"h">>}
Dirs == SeqsUpTo(DirNames, MaxEntries)

\* The test both loops make on de->d_name: the entry is "." or "..".
IsDotEntry(d_name) == d_name = Dot \/ d_name = DotDot

\* What can happen to one entry of holders/: both allocations succeed,
\* calloc of the handle fails, or the list node's allocation fails.
HolderOutcomes == {"ok", "calloc_fails", "append_fails"}

\* The while loop of kmod_module_get_holders over the entries ents[i..];
\* oc[i] is the outcome of entry i's allocations.
RECURSIVE holders_loop(_, _, _, _, _)
holders_loop(hp, ents, i, list, oc) ==
    IF i > Len(ents) THEN [hp |-> hp, list |-> list]
    ELSE IF IsDotEntry(ents[i]) THEN holders_loop(hp, ents, i + 1, list, oc)
    ELSE LET r == kmod_module_new_from_name(hp, CTX, ents[i],
                                            oc[i] # "calloc_fails")
             node == kmod_list_append(list, r.mod, oc[i] # "append_fails")
         IN IF r.err < 0 THEN holders_loop(r.hp, ents, i + 1, list, oc)
            ELSE IF node # <<>>
            THEN holders_loop(r.hp, ents, i + 1, node, oc)
            ELSE holders_loop(kmod_module_unref(r.hp, r.mod), ents, i + 1,
                              list, oc)

\* kmod_module_get_holders(mod): opendir_ok is whether
\* /sys/module/<name>/holders opens.
kmod_module_get_holders(hp, mod, opendir_ok, ents, oc) ==
    IF mod = NULL \/ ~opendir_ok THEN [hp |-> hp, list |-> <<>>]
    ELSE holders_loop(hp, ents, 1, <<>>, oc)

\* Entries that are "." or ".." have no outcome to choose: theirs is "ok".
Pinned(ents, oc, ok) == \A i \in 1..Len(ents) : IsDotEntry(ents[i]) => oc[i] = ok

GetHolders ==
    /\ Running
    /\ holder_list = <<>>
    /\ \E mod \in {NULL} \cup Held, opendir_ok \in BOOLEAN, ents \in Dirs :
         /\ Cardinality({i \in 1..Len(ents) : ~IsDotEntry(ents[i])})
               <= NumFree(mods)
         /\ (mod = NULL \/ ~opendir_ok) => ents = <<>>
         /\ \E oc \in [1..Len(ents) -> HolderOutcomes] :
              LET r == kmod_module_get_holders(Heap, mod, opendir_ok, ents, oc)
              IN /\ Pinned(ents, oc, "ok")
                 /\ SetHeap(r.hp)
                 /\ holder_list' = r.list
                 /\ last' = Call("get_holders", mod,
                                 [opendir_ok |-> opendir_ok, ents |-> ents,
                                  oc |-> oc],
                                 <<>>, r.list)
    /\ UNCHANGED <<held, dep_ptr, lookup_list, open_fds, mappings, fault>>

\* kmod_module_unref_list on the list kmod_module_get_holders returned.
UnrefHolderList ==
    /\ Running
    /\ holder_list # <<>>
    /\ Outcome(kmod_module_unref_list(Heap, holder_list))
    /\ holder_list' = <<>>
    /\ last' = Call("unref_list", NULL, <<>>, <<>>, 0)
    /\ UNCHANGED <<held, dep_ptr, lookup_list, open_fds, mappings>>

\* What can happen to one entry of sections/: all steps succeed and the
\* file holds the address addr, openat fails, read_str_ulong fails, malloc
\* of the section returns NULL, or the list node's allocation fails.  The
\* address is 0 where it does not reach the list.
SectionOutcomes ==
    { o \in [res : {"ok", "open_fails", "parse_fails", "malloc_fails",
                    "append_fails"},
             addr : {0, 1}] :
        o.res # "ok" => o.addr = 0 }

SectionOk == [res |-> "ok", addr |-> 0]

\* The while loop of kmod_module_get_sections over the entries ents[i..].
\* A section is its name and address.  malloc's result is used unchecked:
\* when it is NULL the store to section->address is a write through a null
\* pointer, and the run ends there (crash).
RECURSIVE sections_loop(_, _, _, _)
sections_loop(ents, i, list, oc) ==
    IF i > Len(ents) THEN [list |-> list, crash |-> FALSE]
    ELSE IF IsDotEntry(ents[i]) THEN sections_loop(ents, i + 1, list, oc)
    ELSE IF oc[i].res \in {"open_fails", "parse_fails"}
    THEN sections_loop(ents, i + 1, list, oc)
    ELSE IF oc[i].res = "malloc_fails"
    THEN [list |-> list, crash |-> TRUE]
    ELSE LET section == [name |-> ents[i], address |-> oc[i].addr]
             node == kmod_list_append(list, section,
                                      oc[i].res # "append_fails")
         IN IF node # <<>> THEN sections_loop(ents, i + 1, node, oc)
            ELSE sections_loop(ents, i + 1, list, oc)

\* kmod_module_get_sections(mod): opendir_ok is whether
\* /sys/module/<name>/sections opens.
kmod_module_get_sections(mod, opendir_ok, ents, oc) ==
    IF mod = NULL \/ ~opendir_ok THEN [list |-> <<>>, crash |-> FALSE]
    ELSE sections_loop(ents, 1, <<>>, oc)

GetSections ==
    /\ Running
    /\ \E mod \in {NULL} \cup Held, opendir_ok \in BOOLEAN, ents \in Dirs :
         /\ (mod = NULL \/ ~opendir_ok) => ents = <<>>
         /\ \E oc \in [1..Len(ents) -> SectionOutcomes] :
              LET r == kmod_module_get_sections(mod, opendir_ok, ents, oc)
              IN /\ Pinned(ents, oc, SectionOk)
                 /\ fault' = IF r.crash THEN "crash" ELSE fault
                 /\ last' = Call("get_sections", mod,
                                 [opendir_ok |-> opendir_ok, ents |-> ents,
                                  oc |-> oc],
                                 <<>>, r.list)
    /\ UNCHANGED <<mods, ctx_refcount, dangling, double_unref, held, dep_ptr,
                   lookup_list, holder_list, open_fds, mappings>>

\* ------------------------------------------------------ canonicalizer

\* The paths path_to_modname is applied to on its own.
PathChars == {"/", "-", ".", "a"}
Paths == SeqsUpTo(PathChars, MaxPathLen)

\* A run that starts with a path to canonicalize and no handle.
InitCanon ==
    /\ mods = [h \in Handles |-> Unused]
    /\ ctx_refcount = 0
    /\ dangling = {}
    /\ double_unref = {}
    /\ held = [h \in Handles |-> 0]
    /\ dep_ptr = NULL
    /\ lookup_list = <<>>
    /\ holder_list = <<>>
    /\ open_fds = {}
    /\ mappings = {}
    /\ fault = "none"
    /\ \E path \in Paths : last = Call("path", NULL, path, <<>>, 0)

\* path_to_modname(path, alloc) on the path the run started with.
Canonicalize ==
    /\ last.op = "path"
    /\ last' = Call("path_to_modname", NULL, last.arg, <<>>,
                    path_to_modname(last.arg))
    /\ UNCHANGED <<mods, ctx_refcount, dangling, double_unref, held, dep_ptr,
                   lookup_list, holder_list, open_fds, mappings, fault>>

\* path_to_modname on the name it returned; trace keeps that name.
CanonicalizeAgain ==
    /\ last.op = "path_to_modname"
    /\ last.ret # NullStr
    /\ last' = Call("path_to_modname_again", NULL, last.arg, <<last.ret>>,
                    path_to_modname(last.ret))
    /\ UNCHANGED <<mods, ctx_refcount, dangling, double_unref, held, dep_ptr,
                   lookup_list, holder_list, open_fds, mappings, fault>>

Next ==
    \/ NewFromName
    \/ NewFromPath
    \/ Ref
    \/ Unref
    \/ ParseDep
    \/ GetDependency
    \/ GetModule
    \/ UnrefDependencyList
    \/ NewFromLookup
    \/ UnrefLookupList
    \/ InsertModule
    \/ RemoveModule
    \/ GetName
    \/ GetInitstate
    \/ GetRefcnt
    \/ GetHolders
    \/ UnrefHolderList
    \/ GetSections

Spec == Init /\ [][Next]_vars

NextLifecycle ==
    \/ NewFromName
    \/ NewFromPath
    \/ Ref
    \/ Unref

SpecLifecycle == Init /\ [][NextLifecycle]_vars

NextDep ==
    \/ NewFromName
    \/ Ref
    \/ Unref
    \/ ParseDep
    \/ GetDependency
    \/ UnrefDependencyList

SpecDep == Init /\ [][NextDep]_vars

\* The dependency resolver alone.
NextResolve ==
    \/ NewFromName
    \/ Unref
    \/ ParseDep

SpecResolve == Init /\ [][NextResolve]_vars

NextLookup ==
    \/ NewFromName
    \/ Unref
    \/ NewFromLookup
    \/ UnrefLookupList

SpecLookup == Init /\ [][NextLookup]_vars

NextInsert ==
    \/ NewFromName
    \/ NewFromPath
    \/ Unref
    \/ InsertModule

SpecInsert == Init /\ [][NextInsert]_vars

\* Construction and the two kernel calls.
NextKernel ==
    \/ NewFromName
    \/ NewFromPath
    \/ Unref
    \/ InsertModule
    \/ RemoveModule

SpecKernel == Init /\ [][NextKernel]_vars

\* The operations that use a handle's name.
NextName ==
    \/ NewFromName
    \/ NewFromPath
    \/ Unref
    \/ GetName
    \/ RemoveModule
    \/ GetInitstate
    \/ GetRefcnt

SpecName == Init /\ [][NextName]_vars

\* Alias lookup and insertion, with the handles they are called on.
NextUsage ==
    \/ NewFromName
    \/ NewFromPath
    \/ Unref
    \/ NewFromLookup
    \/ UnrefLookupList
    \/ InsertModule

SpecUsage == Init /\ [][NextUsage]_vars

\* The two directory enumerations.
NextEnum ==
    \/ NewFromName
    \/ Unref
    \/ GetHolders
    \/ UnrefHolderList
    \/ GetSections

SpecEnum == Init /\ [][NextEnum]_vars

NextCanon ==
    \/ Canonicalize
    \/ CanonicalizeAgain

SpecCanon == InitCanon /\ [][NextCanon]_vars

\* The dependency list and the references callers take from it.
NextDepModule ==
    \/ NewFromName
    \/ Unref
    \/ ParseDep
    \/ GetDependency
    \/ GetModule
    \/ UnrefDependencyList

SpecDepModule == Init /\ [][NextDepModule]_vars

NextInitstate ==
    \/ NewFromName
    \/ NewFromPath
    \/ Unref
    \/ GetInitstate

SpecInitstate == Init /\ [][NextInitstate]_vars

\* ------------------------------------------------------------- claims

Live_(h) == mods[h].st = "live"
Freed(h) == mods[h].st = "freed"

\* A live handle some reference accounts for: the caller's, the lookup
\* list's, the holder list's, or the dependency list of a live handle.
Owned(h) ==
    \/ held[h] > 0
    \/ h \in Elems(lookup_list)
    \/ h \in Elems(holder_list)
    \/ \E p \in Handles : Live_(p) /\ p \notin dangling /\ h \in Elems(mods[p].dep)

\* C1: over create_by_name / create_by_path / acquire / release calls, a
\* successful constructor yields refcount 1, acquire adds exactly 1, release
\* takes exactly 1, a live handle's refcount is >= 1, a handle is destroyed
\* exactly at the release that takes its refcount from 1 to 0 and never
\* touched again, and acquire and release of a null handle change nothing.
C1_Step ==
    LET m == last'.mod
    IN /\ (last'.op \in {"new_from_name", "new_from_path"} /\ last'.ret = 0) =>
            /\ mods[m].st = "unused"
            /\ mods'[m].st = "live"
            /\ mods'[m].refcount = 1
       /\ (last'.op = "ref" /\ m # NULL) =>
            /\ mods'[m].refcount = mods[m].refcount + 1
            /\ mods'[m].st = "live"
       /\ (last'.op = "unref" /\ m # NULL) =>
            mods'[m].refcount = mods[m].refcount - 1
       /\ (last'.op \in {"ref", "unref"} /\ m = NULL) =>
            UNCHANGED <<mods, ctx_refcount, dangling, double_unref, held,
                   holder_list>>
       /\ \A h \in Handles :
            /\ mods'[h].st = "live" => mods'[h].refcount >= 1
            /\ (mods[h].st = "live" /\ mods'[h].st = "freed")
                 <=> (last'.op = "unref" /\ m = h /\ mods[h].refcount = 1)
            /\ mods[h].st = "freed" => mods'[h] = mods[h]
       /\ double_unref' = {}

C1_RefcountLifecycle == [][C1_Step]_vars

\* C1's case: a handle acquired a second reference, and a release has just
\* destroyed another handle.
C1_Witness ==
    /\ last.op = "unref"
    /\ last.mod # NULL
    /\ Freed(last.mod)
    /\ \E h \in Handles : Live_(h) /\ mods[h].refcount = 2

\* C2: when the caller gets a handle's dependency list from the accessor,
\* releases it with the list release, and the parent is later released to
\* zero, no dependency is released after its destruction and no
\* dependency's refcount drops below 0.
C2_DependencyReleasedOnce ==
    \A p \in Handles : \A d \in Elems(mods[p].dep) :
        p \in dangling => d \notin double_unref /\ mods[d].refcount >= 0

\* C3: once kmod_module_parse_dep has succeeded on a handle (also when it
\* committed no dependency), the guard stays set while the handle lives, and
\* every further call on the handle fails the assertion with the guard, the
\* dependency list and the rest of the heap unchanged.
C3_Step ==
    LET m == last'.mod
    IN /\ (last'.op = "parse_dep" /\ last'.ret >= 0 /\ fault' = "none") =>
            mods'[m].init_dep
       /\ \A h \in Handles :
            (mods[h].init_dep /\ mods'[h].st = "live") => mods'[h].init_dep
       /\ (last'.op = "parse_dep" /\ mods[m].init_dep) =>
            /\ fault' = "assert"
            /\ UNCHANGED <<mods, ctx_refcount, dangling, double_unref, holder_list>>

C3_ResolveAtMostOnce == [][C3_Step]_vars

\* C3's case: a second call on a handle whose resolution committed zero
\* dependencies has faulted.
C3_Witness ==
    /\ fault = "assert"
    /\ last.op = "parse_dep"
    /\ mods[last.mod].init_dep
    /\ mods[last.mod].dep = <<>>

\* C4: when constructing a dependency handle fails, kmod_module_parse_dep
\* returns the constructor's error, every handle made for the earlier
\* tokens is released and destroyed, the dependency list is absent and the
\* guard is back at not-started.
C4_RollbackOnFailure ==
    (last.op = "parse_dep" /\ last.ret < 0) =>
        /\ last.ret \in {-ENOENT, -ENOMEM}
        /\ mods[last.mod].dep = <<>>
        /\ ~mods[last.mod].init_dep
        /\ \A h \in Handles : Live_(h) => Owned(h)

\* The tokens of s as the claim words them: the maximal runs of characters
\* other than space and tab, in order.
RECURSIVE SplitWs(_, _)
SplitWs(s, cur) ==
    IF s = <<>> THEN (IF cur = <<>> THEN <<>> ELSE <<cur>>)
    ELSE IF Head(s) \in {" ", "\t"}
    THEN (IF cur = <<>> THEN <<>> ELSE <<cur>>) \o SplitWs(Tail(s), <<>>)
    ELSE SplitWs(Tail(s), Append(cur, Head(s)))

\* C5: on success kmod_module_parse_dep commits one handle per
\* whitespace-separated token after the first ':', named by the
\* canonicalized token, in the tokens' order; a line without ':' gives zero
\* dependencies and returns 0.
C5_OneHandlePerToken ==
    (last.op = "parse_dep" /\ last.ret >= 0 /\ fault = "none") =>
        LET line == last.arg.line
            colon == strchr(line, ":")
            toks == IF colon = 0 THEN <<>>
                    ELSE SplitWs(SubSeq(line, colon + 1, Len(line)), <<>>)
            dep == mods[last.mod].dep
        IN /\ Len(dep) = Len(toks)
           /\ \A i \in 1..Len(dep) :
                Live_(dep[i]) /\ mods[dep[i]].name = path_to_modname(toks[i])
           /\ colon = 0 => last.ret = 0

\* C6: alias resolution calls config, moddep file, symbols file, aliases
\* file in that order and stops at the first source that returns without
\* error and leaves the list non-empty: the result is that source's list and
\* no later source is called.  When all four return without error and add
\* nothing, each was called once and the result is the empty list with a
\* success status.
C6_FirstProducerWins ==
    (last.op = "new_from_lookup" /\ last.trace # <<>>) =>
        LET oc == last.arg.oc
            k == Len(last.trace)
        IN /\ last.trace = SubSeq(Sources, 1, k)
           /\ \A i \in 1..(k - 1) : oc[i].err = 0 /\ oc[i].n = 0
           /\ (oc[k].err = 0 /\ oc[k].n > 0) =>
                /\ Len(lookup_list) = oc[k].n
                /\ \A h \in Elems(lookup_list) :
                     /\ Live_(h)
                     /\ mods[h].refcount = 1
                     /\ mods[h].name = last.arg.alias
                /\ last.ret >= 0
           /\ (oc[k].err = 0 /\ oc[k].n = 0) =>
                /\ last.trace = Sources
                /\ lookup_list = <<>>
                /\ last.ret = 0

\* C6's case: config found nothing, the moddep file produced the list, and
\* the two later sources were not called.
C6_Witness ==
    /\ last.op = "new_from_lookup"
    /\ last.trace = <<"config", "moddep_file">>
    /\ last.ret >= 0
    /\ lookup_list # <<>>

\* C7: when a source returns an error, alias resolution returns that error,
\* calls no later source, releases every handle the failing source had put
\* in the list, and hands back an empty list.
C7_SourceErrorPropagates ==
    (last.op = "new_from_lookup"
        /\ \E i \in 1..Len(last.arg.oc) : last.arg.oc[i].err # 0) =>
        LET oc == last.arg.oc
            k == Min({i \in 1..Len(oc) : oc[i].err # 0})
        IN /\ last.ret = -oc[k].err
           /\ last.trace = SubSeq(Sources, 1, k)
           /\ lookup_list = <<>>
           /\ \A h \in Handles : Live_(h) => Owned(h)

\* C7's case: the symbols file failed after it had put a handle in the
\* list, and that handle is destroyed.
C7_Witness ==
    /\ last.op = "new_from_lookup"
    /\ last.trace = <<"config", "moddep_file", "symbols_file">>
    /\ last.ret < 0
    /\ last.arg.oc[3].n > 0
    /\ lookup_list = <<>>
    /\ \E h \in Handles : Freed(h) /\ held[h] = 0

\* C8: after every insert, whatever open, mmap and init_module did, no
\* descriptor insert opened is open and no mapping it made exists: each open
\* is followed by a close and each successful mmap by a munmap.
C8_InsertReleasesAll ==
    /\ open_fds = {}
    /\ mappings = {}
    /\ last.op = "insert_module" =>
         /\ "open" \in Elems(last.trace) /\ last.arg.o.open_err = 0 =>
              "close" \in Elems(last.trace)
         /\ "init_module" \in Elems(last.trace) =>
              "munmap" \in Elems(last.trace)

\* C8's case: init_module failed on the mapped file.
C8_Witness ==
    /\ last.op = "insert_module"
    /\ "init_module" \in Elems(last.trace)
    /\ last.ret < 0
    /\ open_fds = {}
    /\ mappings = {}

\* C9: get_state reports Builtin only when the open of initstate fails
\* because the file does not exist and /sys/module/<name> is a directory;
\* when the open fails for another reason, or the directory check fails, it
\* returns the error of the open.
C9_BuiltinOnlyWhenAbsent ==
    (last.op = "get_initstate" /\ last.arg.open_err # 0) =>
        IF last.arg.open_err = ENOENT /\ last.arg.dir = "dir"
        THEN last.ret = KMOD_MODULE_BUILTIN
        ELSE last.ret = -last.arg.open_err

IsSpace(c) == c \in {" ", "\t", "\n"}

\* s without its leading and trailing white space.
Trim(s) ==
    LET keep == {i \in 1..Len(s) : ~IsSpace(s[i])}
    IN IF keep = {} THEN <<>> ELSE SubSeq(s, Min(keep), Max(keep))

\* The state a content stands for, -EINVAL when it stands for none.
StateOf(word) ==
    IF word = Live THEN KMOD_MODULE_LIVE
    ELSE IF word = Coming THEN KMOD_MODULE_COMING
    ELSE IF word = Going THEN KMOD_MODULE_GOING
    ELSE -EINVAL

ReadOk == last.op = "get_initstate" /\ last.arg.open_err = 0
          /\ last.arg.read_err = 0

\* C10 as claimed: when initstate opens and reads, get_state returns Live,
\* Coming or Going exactly when the trimmed content is live, coming or going
\* (with or without a trailing newline) and InvalidData for every other
\* content.
C10_TrimmedContent ==
    ReadOk => last.ret = StateOf(Trim(last.arg.content))

\* C10 as amended: get_state returns Live, Coming or Going exactly when the
\* content is live, coming or going followed by one newline and nothing
\* else, and -EINVAL, which is none of the I/O and argument error codes, for
\* every other content, the bare word without its newline included.
C10_ExactContent ==
    ReadOk =>
        LET c == last.arg.content
        IN /\ last.ret =
                IF Len(c) > 0 /\ c[Len(c)] = "\n"
                THEN StateOf(SubSeq(c, 1, Len(c) - 1))
                ELSE -EINVAL
           /\ -EINVAL \notin {-ENOENT, -ENOSYS, -EACCES, -EMFILE, -EIO, -ENOMEM}

\* C10's case: the content is the word live without a newline, and
\* get_state returned -EINVAL.
C10_Witness ==
    /\ ReadOk
    /\ last.arg.content = Live
    /\ last.ret = -EINVAL

\* Whether the call recorded in l was given an absent context, name, path
\* or handle.
AbsentArgument(l) ==
    \/ l.op = "new_from_name" /\ (l.arg.ctx = NULL \/ l.arg.name = NullStr)
    \/ l.op = "new_from_path" /\ (l.arg.ctx = NULL \/ l.arg.path = NullStr)
    \/ l.op \in {"insert_module", "remove_module"} /\ l.mod = NULL

\* A call with an absent argument returns -e and changes nothing: no
\* handle, no context reference, no descriptor, no mapping, no system call.
RejectedWith(e) ==
    AbsentArgument(last') =>
        /\ last'.ret = -e
        /\ last'.trace = <<>>
        /\ mods' = mods
        /\ ctx_refcount' = ctx_refcount
        /\ open_fds' = open_fds
        /\ mappings' = mappings

\* C11 as claimed: create_by_name and create_by_path given an absent
\* context or name/path, and insert and remove given a null handle, fail
\* with the invalid-argument code (EINVAL) before they allocate a handle,
\* take a context reference or call a filesystem or kernel primitive.
C11_InvalidArgument == [][RejectedWith(EINVAL)]_vars

\* C11 as amended: the same calls fail with the no-such-entry code
\* (-ENOENT), and do so before they allocate a handle, take a context
\* reference or call a filesystem or kernel primitive.
C11_NoSuchEntry == [][RejectedWith(ENOENT)]_vars

\* C11's case: create_by_path was called without a context on a path
\* whose stat would have failed with another error.
C11_Witness ==
    /\ last.op = "new_from_path"
    /\ last.arg.ctx = NULL
    /\ last.arg.stat_err = EACCES
    /\ last.ret = -ENOENT

\* The sysfs entry an operation reads.
EntryOf(op) ==
    IF op = "get_initstate" THEN InitstateEntry ELSE RefcntEntry

\* C12: for a handle constructed by path, the name accessor returns, and
\* get_state, get_refcount and remove use, canonicalize(path), whatever
\* was called on the handle before.
C12_NameDerivedFromPath ==
    (last.mod # NULL /\ Live_(last.mod) /\ mods[last.mod].path # NullStr) =>
        LET name == path_to_modname(mods[last.mod].path)
        IN /\ last.op = "get_name" => last.ret = name
           /\ (last.op = "remove_module") => last.arg.name = name
           /\ last.op \in {"get_initstate", "get_refcnt"} =>
                last.trace = <<SysModule \o name \o EntryOf(last.op)>>

\* Whether the C string str is present (not NULL) and not empty.
NonEmpty(str) == str # NullStr /\ str # <<>>

\* C13: every handle that exists after a successful construction, by
\* create_by_name, by create_by_path or as a dependency of any token (one
\* whose basename starts with '.' included), has a non-empty path or a
\* non-empty name in every reachable state.
C13_NameOrPathPresent ==
    \A h \in Handles :
        Live_(h) => NonEmpty(mods[h].name) \/ NonEmpty(mods[h].path)

\* The call recorded in l is an alias resolution whose output list is
\* missing or not empty.
BadOutputList(l) ==
    l.op = "new_from_lookup" /\ (l.arg.listp = NULL \/ l.arg.list # <<>>)

\* The call recorded in l is an insert on a handle without file path.
InsertByName(l) ==
    l.op = "insert_module" /\ l.mod # NULL /\ mods[l.mod].path = NullStr

\* C14: alias resolution given a non-empty or missing output list calls
\* none of the four sources and leaves the caller's list and the heap as
\* they were, and returns NotSupported (-ENOSYS) when context and alias are
\* present; insert on a handle without file path returns NotSupported
\* without an open, a mapping or a call of init_module.
C14_Step ==
    /\ BadOutputList(last') =>
          /\ last'.trace = <<>>
          /\ lookup_list' = lookup_list
          /\ mods' = mods
          /\ ctx_refcount' = ctx_refcount
          /\ (last'.arg.ctx # NULL /\ last'.arg.alias # NullStr) =>
                last'.ret = -ENOSYS
    /\ InsertByName(last') =>
          /\ last'.ret = -ENOSYS
          /\ last'.trace = <<>>
          /\ open_fds' = open_fds
          /\ mappings' = mappings

RECURSIVE Kept(_, _, _, _)
Kept(ents, oc, bad, i) ==
    IF i > Len(ents) THEN <<>>
    ELSE IF IsDotEntry(ents[i]) \/ oc[i] \in bad THEN Kept(ents, oc, bad, i + 1)
    ELSE <<ents[i]>> \o Kept(ents, oc, bad, i + 1)

\* C15: holder and section enumeration return, in directory order, exactly
\* the entries other than "." and ".." whose own step succeeded (handle
\* construction for holders; open and hexadecimal parse for sections): a
\* failure on one entry drops no other entry and reorders none.
C15_SkipAndContinue ==
    /\ (last.op = "get_holders" /\ last.mod # NULL /\ last.arg.opendir_ok) =>
          /\ Len(last.ret) = Len(Kept(last.arg.ents, last.arg.oc,
                                      {"calloc_fails"}, 1))
          /\ \A i \in 1..Len(last.ret) :
                mods[last.ret[i]].name
                  = Kept(last.arg.ents, last.arg.oc, {"calloc_fails"}, 1)[i]
    /\ (last.op = "get_sections" /\ last.mod # NULL /\ last.arg.opendir_ok) =>
          /\ fault = "none"
          /\ [i \in 1..Len(last.ret) |-> last.ret[i].name]
               = Kept(last.arg.ents, last.arg.oc,
                      {o \in SectionOutcomes :
                         o.res \in {"open_fails", "parse_fails"}}, 1)

\* The basename of path cut at its first '.', every '-' before that point
\* replaced by '_'.
CutAndReplace(path) ==
    LET b == basename(path)
        dots == {i \in 1..Len(b) : b[i] = "."}
        n == IF dots = {} THEN Len(b) ELSE Min(dots) - 1
    IN [i \in 1..n |-> IF b[i] = "-" THEN "_" ELSE b[i]]

\* C16: for every path with a non-empty basename, canonicalize(path) holds
\* no '-' and no '.', is the basename cut at its first '.' with every '-'
\* before it replaced by '_', and canonicalize of that result is the same
\* name.
C16_Canonicalize ==
    basename(last.arg) # <<>> =>
        /\ last.op = "path_to_modname" =>
              /\ last.ret # NullStr
              /\ "-" \notin Elems(last.ret)
              /\ "." \notin Elems(last.ret)
              /\ last.ret = CutAndReplace(last.arg)
        /\ last.op = "path_to_modname_again" => last.ret = last.trace[1]

\* The last call is an insert whose mmap failed.
MmapFailed ==
    /\ last.op = "insert_module"
    /\ "mmap" \in Elems(last.trace)
    /\ MmapErrno(last.arg.o) # 0

\* C17: when the mapping fails in insert, the value returned is the negated
\* error of the mapping failure itself, unaltered by the close that follows
\* and never 0, the descriptor is closed and init_module is not called.
C17_MmapErrorReturned ==
    MmapFailed =>
        /\ last.ret = -MmapErrno(last.arg.o)
        /\ last.ret # 0
        /\ "close" \in Elems(last.trace)
        /\ open_fds = {}
        /\ "init_module" \notin Elems(last.trace)

\* C18: whenever the dependency resolver returns a count n >= 0, the list
\* it committed to the handle has exactly n elements, whatever
\* kmod_list_append did, a failed append that returns no list included.
C18_CountIsListLength ==
    (last.op = "parse_dep" /\ fault = "none" /\ last.ret >= 0) =>
        Len(mods[last.mod].dep) = last.ret

\* C19: each live handle holds exactly one context reference.  The model
\* counts the references handles hold (none is held outside them, and the
\* initial value is 0): after every step that count is the number of live
\* handles, dependency handles included; a failed constructor or a
\* rolled-back dependency resolution leaves it as it was before the call;
\* and it is 0 again once no handle is live.
C19_Step ==
    /\ ctx_refcount' = Cardinality({h \in Handles : mods'[h].st = "live"})
    /\ (last'.op \in {"new_from_name", "new_from_path", "parse_dep"}
          /\ last'.ret < 0) => ctx_refcount' = ctx_refcount
    /\ (\A h \in Handles : mods'[h].st # "live") => ctx_refcount' = 0

C19_ContextRefPerHandle == [][C19_Step]_vars

\* Handle d is an element of some handle's dependency list.
IsDependency(d) == \E p \in Handles : d \in Elems(mods[p].dep)

\* C20: a dependency handle the caller took from a list entry with
\* get_module stays live while the caller holds its reference, also after
\* the parent was released to zero; destroying the parent lowers each
\* dependency's refcount by exactly 1 and destroys a dependency only when
\* that takes it to 0.
C20_Step ==
    /\ \A d \in Handles :
          (held'[d] > 0 /\ IsDependency(d)) =>
              mods'[d].st = "live" /\ mods'[d].refcount >= held'[d]
    /\ \A p \in Handles :
          (last'.op = "unref" /\ last'.mod = p /\ fault' = "none"
              /\ mods[p].st = "live" /\ mods'[p].st = "freed") =>
              \A d \in Elems(mods[p].dep) :
                  held[d] > 0 =>
                      /\ mods'[d].refcount = mods[d].refcount - 1
                      /\ mods'[d].st = "live"

C20_DependencyOutlivesParent == [][C20_Step]_vars

====
